---------------------------- MODULE Spec2Model ----------------------------
(***************************************************************************)
(* WebpackCompilerHost (packages/ngtools/webpack/src/compiler_host.ts):    *)
(* the compiler host that answers TypeScript's file queries from a         *)
(* virtualFs.CordHost layered over a backing host.                         *)
(*                                                                         *)
(* A string that names a file is a sequence of tokens: the separators "/"  *)
(* and "\\" and, between two separators, one whole path segment (".",      *)
(* "..", "src", "a.ts", the drive prefix "C:", ...).  Two segments are     *)
(* never adjacent, so a token sequence denotes exactly one string.         *)
(* File contents are sequences of characters, stored as UTF-8 bytes.       *)
(* An optional value is a sequence of length 0 (undefined) or 1.           *)
(***************************************************************************)
EXTENDS Integers, Sequences, FiniteSets, TLC

VARIABLES platform, _basePath, backend, cache, filesToCreate, filesToOverwrite,
          _changedFiles, calls, last

vars == <<platform, _basePath, backend, cache, filesToCreate, filesToOverwrite,
          _changedFiles, calls, last>>

\* Bounds of the model: the writeFile and invalidate calls of a run, and the
\* tokens of a path given to the path functions.
MaxCalls == 2
MaxLen == 4

Range(s) == {s[i] : i \in 1..Len(s)}

Undefined == <<>>
Def(v) == <<v>>

----------------------------------------------------------------------------
(* Paths: normalize, join, isAbsolute, getSystemPath of @angular-devkit/core *)

NormalizedSep == "/"
IsSep(t) == t \in {"/", "\\"}

\* The value that stands for a thrown InvalidPathException.
InvalidPath == <<"!InvalidPathException">>

\* /^[A-Z]:[\/\\]/i : the drive letter of a token that spells "<letter>:".
DriveLetters == [x \in {"C:"} |-> "C"]
\* /^\/(\w)(?:\/(.*))?$/ : segments that are one word character, with the
\* drive prefix asWindowsPath spells for them.
DriveTokens == [x \in {"C", "a", "B", "b", "c"} |->
                  CASE x = "C" -> "C:" [] x = "a" -> "a:" [] x = "B" -> "B:"
                    [] x = "b" -> "b:" [] x = "c" -> "c:"]

\* String.prototype.split(/[\/\\]/g): the segments between separators, the
\* empty ones included.
RECURSIVE SplitFrom(_, _, _)
SplitFrom(path, i, cur) ==
  IF i > Len(path) THEN <<cur>>
  ELSE IF IsSep(path[i]) THEN <<cur>> \o SplitFrom(path, i + 1, "")
  ELSE SplitFrom(path, i + 1, path[i])

SplitSeps(path) == SplitFrom(path, 1, "")

\* Array.prototype.splice(at, n) with 0-based at.
Splice(p, at, n) == SubSeq(p, 1, at) \o SubSeq(p, at + n + 1, Len(p))

\* The while loop of noCacheNormalize; i is the 0-based index of the code.
RECURSIVE NormLoop(_, _, _)
NormLoop(p, i, relative) ==
  IF i >= Len(p) THEN p
  ELSE LET s == p[i + 1] IN
    IF s = "." THEN NormLoop(Splice(p, i, 1), i, relative)
    ELSE IF s = ".." THEN
      IF i < 2 /\ ~relative THEN InvalidPath
      ELSE IF i >= 2 /\ p[i] # ".." THEN NormLoop(Splice(p, i - 1, 2), i - 1, relative)
      ELSE NormLoop(p, i + 1, relative)
    ELSE IF s = "" THEN NormLoop(Splice(p, i, 1), i, relative)
    ELSE NormLoop(p, i + 1, relative)

\* Array.prototype.join('/') over segments, back to tokens.
RECURSIVE JoinSegs(_)
JoinSegs(p) ==
  IF Len(p) = 0 THEN <<>>
  ELSE LET head == IF p[1] = "" THEN <<>> ELSE <<p[1]>> IN
    IF Len(p) = 1 THEN head
    ELSE head \o <<NormalizedSep>> \o JoinSegs(Tail(p))

\* noCacheNormalize, in the order of the code: an absolute Windows path is
\* rewritten, the path is split, the segments are walked and joined again.
WindowsToSegments(path) ==
  IF Len(path) >= 2 /\ path[1] \in DOMAIN DriveLetters /\ IsSep(path[2])
  THEN <<"\\", DriveLetters[path[1]], "\\">> \o SubSeq(path, 3, Len(path))
  ELSE path

NormalizedSegments(p) ==
  IF p = InvalidPath THEN InvalidPath
  ELSE IF Len(p) = 1 THEN (IF p[1] = "" THEN <<NormalizedSep>> ELSE <<>>)
  ELSE JoinSegs(IF p[1] = "." THEN Tail(p) ELSE p)

\* p[0] != '': the path is relative and '.' is put in front of its segments.
WalkSegments(p) ==
  NormalizedSegments(NormLoop(IF p[1] # "" THEN <<".">> \o p ELSE p, 1, p[1] # ""))

noCacheNormalize(path) ==
  IF path = <<>> \/ path = <<".">> THEN <<>>
  ELSE IF path = <<NormalizedSep>> THEN <<NormalizedSep>>
  ELSE WalkSegments(SplitSeps(WindowsToSegments(path)))

\* The hosts: process.platform and the base directory given to the constructor.
Platforms == {"linux", "win32"}
BaseDir(pf) == IF pf = "win32" THEN <<"C:", "\\", "project">> ELSE <<"/", "project">>

\* File names given to the host, relative to the base directory ...
RelNames == { <<"src", "/", "b.ngfactory.js">>,
              <<"src", "\\", ".", "\\", "b.ngfactory.js">>,
              <<"src">>,
              <<"gen", "/", "c.ngfactory.js">>,
              <<"gen", "/", "c.ngstyle.js">>,
              <<"gen", "/", "d.js">>,
              <<"..", "/", "..", "/", "..", "/", "x">> }
\* ... and the base-joined absolute spelling of some of them.
AbsSpelling(pf, rel) == BaseDir(pf) \o <<"/">> \o rel
WithAbsSpelling == { <<"src", "/", "b.ngfactory.js">>, <<"gen", "/", "c.ngfactory.js">> }
NamesOf(pf) == RelNames \cup {AbsSpelling(pf, r) : r \in WithAbsSpelling}

\* normalizeCache, the memo of normalize, filled for the strings the hosts above
\* normalize: the names, the base directories and their joins.
GivenPaths == UNION {NamesOf(pf) \cup {BaseDir(pf)} : pf \in Platforms}
NormalizedPaths == {noCacheNormalize(q) : q \in GivenPaths} \ {InvalidPath}
JoinedPaths ==
  {noCacheNormalize(BaseDir(pf)) \o <<NormalizedSep>> \o q :
     pf \in Platforms, q \in NormalizedPaths}
ResolvedPaths == {noCacheNormalize(q) : q \in JoinedPaths} \ {InvalidPath}
normalizeCache ==
  [q \in GivenPaths \cup NormalizedPaths \cup JoinedPaths \cup ResolvedPaths |->
     noCacheNormalize(q)]

\* normalize(path): normalizeCache.get(path), or noCacheNormalize(path).
CacheGet(cached, path) ==
  IF path \in DOMAIN cached THEN cached[path] ELSE noCacheNormalize(path)
normalize(path) == CacheGet(normalizeCache, path)

isAbsolute(p) == Len(p) >= 1 /\ p[1] = NormalizedSep

\* join(p1, other): normalize((p1 ? p1 + '/' : '') + other)
join(p1, other) ==
  normalize((IF p1 # <<>> THEN p1 \o <<NormalizedSep>> ELSE <<>>) \o other)

ReplaceAll(path, from, to) ==
  [i \in 1..Len(path) |-> IF path[i] = from THEN to ELSE path[i]]

asWindowsPath(path) ==
  IF /\ Len(path) >= 2
     /\ path[1] = "/"
     /\ path[2] \in DOMAIN DriveTokens
     /\ (Len(path) = 2 \/ path[3] = "/")
  THEN <<DriveTokens[path[2]], "\\">> \o ReplaceAll(SubSeq(path, 4, Len(path)), "/", "\\")
  ELSE ReplaceAll(path, "/", "\\")

getSystemPath(path) ==
  IF platform = "win32" THEN asWindowsPath(path) ELSE path

\* String.prototype.toLowerCase on the segments of the model.
LowerTokens == [x \in {"B", "C", "C:", "B:", "SRC", "A.ts"} |->
                  CASE x = "B" -> "b" [] x = "C" -> "c" [] x = "C:" -> "c:"
                    [] x = "B:" -> "b:" [] x = "SRC" -> "src" [] x = "A.ts" -> "a.ts"]
toLowerCase(path) ==
  [i \in 1..Len(path) |->
     IF path[i] \in DOMAIN LowerTokens THEN LowerTokens[path[i]] ELSE path[i]]

\* String.prototype.endsWith for the two suffixes the host asks about.
SuffixOf == [x \in {"b.ngfactory.js", "c.ngfactory.js", "c.ngstyle.js"} |->
               IF x = "c.ngstyle.js" THEN ".ngstyle.js" ELSE ".ngfactory.js"]
endsWith(path, suffix) ==
  /\ Len(path) >= 1
  /\ path[Len(path)] \in DOMAIN SuffixOf
  /\ SuffixOf[path[Len(path)]] = suffix


----------------------------------------------------------------------------
(* File contents: virtualFs.stringToFileBuffer / fileBufferToString (UTF-8) *)

Chars == {"x", "U+00E9"}
Utf8 == [c \in Chars |-> IF c = "x" THEN <<120>> ELSE <<195, 169>>]

RECURSIVE stringToFileBuffer(_)
stringToFileBuffer(str) ==
  IF str = <<>> THEN <<>> ELSE Utf8[Head(str)] \o stringToFileBuffer(Tail(str))

RECURSIVE fileBufferToString(_)
fileBufferToString(buf) ==
  IF buf = <<>> THEN <<>>
  ELSE LET n == IF buf[1] < 128 THEN 1 ELSE 2
           c == CHOOSE c \in Chars : Utf8[c] = SubSeq(buf, 1, n)
       IN <<c>> \o fileBufferToString(SubSeq(buf, n + 1, Len(buf)))

\* The text contents written in the model.
Contents == {<<>>, <<"U+00E9", "x">>}

----------------------------------------------------------------------------
(* The names and paths given to the host *)

Names == NamesOf(platform)

\* A raw name is relative when it starts with neither a separator nor a drive.
IsRelativeName(name) ==
  \/ name = <<>>
  \/ /\ ~IsSep(name[1])
     /\ ~(Len(name) >= 2 /\ name[1] \in DOMAIN DriveLetters /\ IsSep(name[2]))

\* Every string of at most MaxLen tokens (no two segments adjacent).
PathSegments == {".", "..", "a", "B", "C:"}
PathTokens == PathSegments \cup {"/", "\\"}
RECURSIVE RawPathsOfLen(_)
RawPathsOfLen(n) ==
  IF n = 0 THEN {<<>>}
  ELSE {Append(s, t) : s \in RawPathsOfLen(n - 1), t \in PathTokens} \ 
       {s \in {Append(s, t) : s \in RawPathsOfLen(n - 1), t \in PathTokens} :
          Len(s) >= 2 /\ s[Len(s)] \in PathSegments /\ s[Len(s) - 1] \in PathSegments}
RawPaths == UNION {RawPathsOfLen(n) : n \in 0..MaxLen}

----------------------------------------------------------------------------
(* virtualFs.CordHost over a backing host, seen through SyncDelegateHost *)

File(data) == [kind |-> "file", data |-> data]
Dir == [kind |-> "dir", data |-> <<>>]

\* The proper ancestors of an absolute normalized path.
Ancestors(p) ==
  IF p = <<"/">> THEN {}
  ELSE {<<"/">>} \cup {SubSeq(p, 1, k) : k \in {j \in 2..(Len(p) - 1) : j % 2 = 0}}

\* The backing host the constructor is given: the file
\* <base>/src/b.ngfactory.js, with the directories above it.
BackendOf(base) ==
  LET b == base \o <<"/", "src", "/", "b.ngfactory.js">>
  IN [p \in Ancestors(b) \cup {b} |->
        IF p = b THEN File(stringToFileBuffer(<<"x", "U+00E9">>)) ELSE Dir]

backendExists(p) == p \in DOMAIN backend
backendIsFile(p) == p \in DOMAIN backend /\ backend[p].kind = "file"

syncExists(p) == p \in DOMAIN cache \/ p \in DOMAIN backend
Merged(p) == IF p \in DOMAIN cache THEN cache[p] ELSE backend[p]
syncIsFile(p) == syncExists(p) /\ Merged(p).kind = "file"
syncIsDirectory(p) == syncExists(p) /\ Merged(p).kind = "dir"
\* read: the bytes, or nothing when the host throws (no such file).
syncRead(p) == IF syncIsFile(p) THEN Def(Merged(p).data) ELSE Undefined
syncStat(p) == [isFile |-> Merged(p).kind = "file", size |-> Len(Merged(p).data)]

SetAdd(seq, x) == IF x \in Range(seq) THEN seq ELSE Append(seq, x)

\* SimpleMemoryHost._write: the file, and the directories above it.
memoryWrite(p, content) ==
  [q \in DOMAIN cache \cup Ancestors(p) \cup {p} |->
     IF q = p THEN File(content)
     ELSE IF q \in DOMAIN cache THEN cache[q] ELSE Dir]

\* CordHost.write: create a path that does not exist, overwrite one that does.
\* The outcome: the exception thrown (or none) and the state of the host.
syncWrite(p, content) ==
  IF syncExists(p) THEN
    IF syncIsDirectory(p) THEN
      [error |-> Def([exception |-> "PathIsDirectoryException", path |-> p]),
       cache |-> cache, create |-> filesToCreate, overwrite |-> filesToOverwrite]
    ELSE
      [error |-> Undefined,
       cache |-> memoryWrite(p, content),
       create |-> filesToCreate,
       overwrite |-> IF p \in Range(filesToCreate) THEN filesToOverwrite
                     ELSE SetAdd(filesToOverwrite, p)]
  ELSE
    [error |-> Undefined,
     cache |-> memoryWrite(p, content),
     create |-> SetAdd(filesToCreate, p),
     overwrite |-> filesToOverwrite]

\* CordHost.records(), the 'create' records: the paths, in order.
createRecords == filesToCreate

fsVars == <<backend, cache, filesToCreate, filesToOverwrite>>
hostVars == <<platform, _basePath>>

----------------------------------------------------------------------------
(* WebpackCompilerHost: the methods *)

\* e.message of the InvalidPathException normalize throws.
InvalidPathMessage == [exception |-> "InvalidPathException", path |-> InvalidPath]

\* Mutant: the path is joined to the base path whether absolute or not.
resolve_AlwaysJoin(path) ==
  IF normalize(path) = InvalidPath THEN InvalidPath
  ELSE join(_basePath, normalize(path))

\* resolve, once its argument is normalized (p is InvalidPath when normalize
\* threw).
resolveNormalized(p) ==
  IF p = InvalidPath THEN InvalidPath
  ELSE IF isAbsolute(p) THEN p
  ELSE join(_basePath, p)

resolve(path) == resolveNormalized(normalize(path))

denormalizePath(path) == getSystemPath(normalize(path))

workaroundResolve(path) == ReplaceAll(getSystemPath(normalize(path)), "\\", "/")

getChangedFilePaths == _changedFiles

\* Mutant: the style modules are left out.
getNgFactoryPaths_FactoryOnly ==
  LET IsGenerated(fileName) == endsWith(fileName, ".ngfactory.js")
      generated == SelectSeq(createRecords, IsGenerated)
  IN [i \in 1..Len(generated) |-> denormalizePath(generated[i])]

getNgFactoryPaths ==
  LET IsGenerated(fileName) ==
        endsWith(fileName, ".ngfactory.js") \/ endsWith(fileName, ".ngstyle.js")
      generated == SelectSeq(createRecords, IsGenerated)
  IN [i \in 1..Len(generated) |-> denormalizePath(generated[i])]

\* fileExists, once the name is resolved to p.
fileExistsAt(p, delegate) ==
  IF delegate THEN syncExists(p) /\ syncIsFile(p)
  ELSE /\ syncExists(p) /\ syncIsFile(p)
       /\ ~(backendExists(p) /\ backendIsFile(p))

\* Mutant: the backing store is not asked.
fileExists_IgnoresDelegate(fileName, delegate) ==
  fileExistsAt(resolve(fileName), TRUE)

\* The methods below are applied to names that resolve; the actions handle the
\* exception resolve throws for the others.
fileExists(fileName, delegate) == fileExistsAt(resolve(fileName), delegate)

\* What a read gives its caller: the value returned, or threw when the read
\* throws (buffer is then undefined).
ReadString(buffer) ==
  IF buffer = Undefined THEN [threw |-> TRUE, value |-> Undefined]
  ELSE [threw |-> FALSE, value |-> Def(fileBufferToString(buffer[1]))]

ReadBuffer(buffer) ==
  IF buffer = Undefined THEN [threw |-> TRUE, value |-> Undefined]
  ELSE [threw |-> FALSE, value |-> Def(buffer[1])]

\* Mutant: the file is read without asking whether it exists.
readFile_NoGuard(fileName) == ReadString(syncRead(resolve(fileName)))

\* readFile and readFileBuffer, once the name is resolved to filePath.
readFileAt(filePath) ==
  IF ~syncExists(filePath) \/ ~syncIsFile(filePath)
  THEN [threw |-> FALSE, value |-> Undefined]
  ELSE ReadString(syncRead(filePath))

readFile(fileName) == readFileAt(resolve(fileName))

readFileBufferAt(filePath) ==
  IF ~syncExists(filePath) \/ ~syncIsFile(filePath)
  THEN [threw |-> FALSE, value |-> Undefined]
  ELSE ReadBuffer(syncRead(filePath))

readFileBuffer(fileName) == readFileBufferAt(resolve(fileName))

\* stat, once the path is resolved to p: dev and ino, two random numbers, and
\* the four times are left out.
Stats(stats) ==
  [isFile |-> stats.isFile, size |-> stats.size, mode |-> 511, nlink |-> 1,
   uid |-> 0, gid |-> 0, rdev |-> 0, blksize |-> 512,
   blocks |-> (stats.size + 511) \div 512]

statAt(p) == IF ~syncExists(p) THEN Undefined ELSE Def(Stats(syncStat(p)))

stat(path) == statAt(resolve(path))

\* Mutant: the name is added as given, not resolved.
invalidate_AddsFileName(fileName) ==
  IF fileExists(fileName, TRUE) THEN SetAdd(_changedFiles, fileName)
  ELSE _changedFiles

\* Mutant: the path is added whether the file exists or not.
invalidate_NoExistCheck(fileName) == SetAdd(_changedFiles, resolve(fileName))

\* invalidate: the changed-file set afterwards.
invalidate(fileName) ==
  IF fileExists(fileName, TRUE) THEN SetAdd(_changedFiles, resolve(fileName))
  ELSE _changedFiles

\* getSourceFile, once readFile has answered: the source file created (its
\* fileName, text and language version) or undefined, and the messages given
\* to onError.
SourceFileOf(read, fileName, languageVersion, hasOnError) ==
  IF read.threw
  THEN [value |-> Undefined, caught |-> TRUE,
        onError |-> IF hasOnError
                    THEN <<[exception |-> "FileDoesNotExistException",
                            path |-> resolve(fileName)]>>
                    ELSE <<>>]
  ELSE IF read.value # Undefined
  THEN [value |-> Def([fileName |-> workaroundResolve(fileName),
                       text |-> read.value[1],
                       languageVersion |-> languageVersion]),
        caught |-> FALSE, onError |-> <<>>]
  ELSE [value |-> Undefined, caught |-> FALSE, onError |-> <<>>]

getSourceFile(fileName, languageVersion, hasOnError) ==
  IF resolve(fileName) = InvalidPath
  THEN [value |-> Undefined, caught |-> TRUE,
        onError |-> IF hasOnError THEN <<InvalidPathMessage>> ELSE <<>>]
  ELSE SourceFileOf(readFile(fileName), fileName, languageVersion, hasOnError)

\* writeFile: what the call did (threw: an exception reached the caller;
\* caught: the catch block ran; onError: the messages given to the callback)
\* and the state of the file system afterwards. w is the outcome of the write.
Caught(w, hasOnError) ==
  [threw |-> FALSE,
   caught |-> w.error # Undefined,
   onError |-> IF w.error # Undefined /\ hasOnError THEN w.error ELSE <<>>,
   cache |-> w.cache, create |-> w.create, overwrite |-> w.overwrite]

ResolveThrew ==
  [threw |-> TRUE, caught |-> FALSE, onError |-> <<>>,
   cache |-> cache, create |-> filesToCreate, overwrite |-> filesToOverwrite]

\* writeFile, once the name is resolved to p.
writeFileAt(p, data, hasOnError) ==
  IF p = InvalidPath THEN ResolveThrew
  ELSE Caught(syncWrite(p, stringToFileBuffer(data)), hasOnError)

\* Mutant: the file is written at the normalized name, not the resolved one.
writeFile_Unresolved(fileName, data, hasOnError) ==
  writeFileAt(normalize(fileName), data, hasOnError)

\* Mutant: no try/catch around the write.
writeFile_NoCatch(fileName, data, hasOnError) ==
  IF resolve(fileName) = InvalidPath THEN ResolveThrew
  ELSE LET w == syncWrite(resolve(fileName), stringToFileBuffer(data)) IN
    [threw |-> w.error # Undefined, caught |-> FALSE, onError |-> <<>>,
     cache |-> w.cache, create |-> w.create, overwrite |-> w.overwrite]

writeFile(fileName, data, hasOnError) ==
  writeFileAt(resolve(fileName), data, hasOnError)

\* this.useCaseSensitiveFileNames, the method itself (it is not called): a
\* function, which is truthy.
useCaseSensitiveFileNamesMember == TRUE

useCaseSensitiveFileNames == platform # "win32"

getCanonicalFileNameOf(path) ==
  IF useCaseSensitiveFileNamesMember THEN path ELSE toLowerCase(path)

getCanonicalFileName(fileName) == getCanonicalFileNameOf(resolve(fileName))

----------------------------------------------------------------------------
(* The state machine *)

LanguageVersions == {"ES2015"}

\* What the last call was and what its caller saw.
NoCall == [op |-> "new", name |-> <<>>, data |-> <<>>, flag |-> FALSE,
           threw |-> FALSE, caught |-> FALSE, result |-> <<>>, onError |-> <<>>]

Call(op, name) == [NoCall EXCEPT !.op = op, !.name = name]
Threw(op, name) == [NoCall EXCEPT !.op = op, !.name = name, !.threw = TRUE]


\* new WebpackCompilerHost(options, basePath, host)
Init ==
  /\ platform \in Platforms
  /\ _basePath = normalize(BaseDir(platform))
  /\ backend = BackendOf(normalize(BaseDir(platform)))
  /\ cache = << >>
  /\ filesToCreate = <<>>
  /\ filesToOverwrite = <<>>
  /\ _changedFiles = <<>>
  /\ calls = 0
  /\ last = NoCall

\* writeFile(fileName, data, _, onError, _); w is what the call did.
Written(w, fileName, data, hasOnError) ==
  /\ cache' = w.cache
  /\ filesToCreate' = w.create
  /\ filesToOverwrite' = w.overwrite
  /\ last' = [Call("writeFile", fileName) EXCEPT
                !.data = data, !.flag = hasOnError, !.threw = w.threw,
                !.caught = w.caught, !.onError = w.onError]

WriteFile(fileName, data, hasOnError) ==
  /\ calls < MaxCalls
  /\ calls' = calls + 1
  /\ Written(writeFile(fileName, data, hasOnError), fileName, data, hasOnError)
  /\ UNCHANGED <<hostVars, backend, _changedFiles>>

Invalidate(fileName) ==
  /\ calls < MaxCalls
  /\ calls' = calls + 1
  /\ IF resolve(fileName) = InvalidPath
     THEN /\ last' = Threw("invalidate", fileName)
          /\ UNCHANGED _changedFiles
     ELSE /\ _changedFiles' = invalidate(fileName)
          /\ last' = Call("invalidate", fileName)
  /\ UNCHANGED <<hostVars, fsVars>>

ResetChangedFileTracker ==
  /\ _changedFiles' = <<>>
  /\ last' = Call("resetChangedFileTracker", <<>>)
  /\ UNCHANGED <<hostVars, fsVars, calls>>

\* The calls that only answer.
Answer(call) ==
  /\ last' = call
  /\ UNCHANGED <<hostVars, fsVars, _changedFiles, calls>>

GetChangedFilePaths ==
  Answer([Call("getChangedFilePaths", <<>>) EXCEPT !.result = getChangedFilePaths])

GetNgFactoryPaths ==
  Answer([Call("getNgFactoryPaths", <<>>) EXCEPT !.result = getNgFactoryPaths])

FileExists(fileName, delegate) ==
  Answer(IF resolve(fileName) = InvalidPath
         THEN [Threw("fileExists", fileName) EXCEPT !.flag = delegate]
         ELSE [Call("fileExists", fileName) EXCEPT
                 !.flag = delegate, !.result = Def(fileExists(fileName, delegate))])

ReadAnswer(op, fileName, read) ==
  [Call(op, fileName) EXCEPT !.threw = read.threw, !.result = read.value]

ReadFile(fileName) ==
  Answer(IF resolve(fileName) = InvalidPath
         THEN Threw("readFile", fileName)
         ELSE ReadAnswer("readFile", fileName, readFile(fileName)))

ReadFileBuffer(fileName) ==
  Answer(IF resolve(fileName) = InvalidPath
         THEN Threw("readFileBuffer", fileName)
         ELSE ReadAnswer("readFileBuffer", fileName, readFileBuffer(fileName)))

Stat(path) ==
  Answer(IF resolve(path) = InvalidPath
         THEN Threw("stat", path)
         ELSE [Call("stat", path) EXCEPT !.result = stat(path)])

SourceFileAnswer(fileName, sf) ==
  [Call("getSourceFile", fileName) EXCEPT
     !.result = sf.value, !.onError = sf.onError, !.caught = sf.caught]

GetSourceFile(fileName, languageVersion, hasOnError) ==
  Answer(SourceFileAnswer(fileName,
                          getSourceFile(fileName, languageVersion, hasOnError)))

ResolveAnswer(path, p) ==
  IF p = InvalidPath THEN Threw("resolve", path)
  ELSE [Call("resolve", path) EXCEPT !.result = Def(p)]

Resolve(path) == Answer(ResolveAnswer(path, resolve(path)))

GetCanonicalFileName(fileName) ==
  Answer(IF resolve(fileName) = InvalidPath
         THEN Threw("getCanonicalFileName", fileName)
         ELSE [Call("getCanonicalFileName", fileName) EXCEPT
                 !.result = Def(getCanonicalFileName(fileName))])

\* The host in use: files are written, invalidated and queried by name.
Next ==
  \/ \E n \in Names, d \in Contents, cb \in BOOLEAN : WriteFile(n, d, cb)
  \/ \E n \in Names : Invalidate(n)
  \/ ResetChangedFileTracker
  \/ GetChangedFilePaths
  \/ GetNgFactoryPaths
  \/ \E n \in Names, delegate \in BOOLEAN : FileExists(n, delegate)
  \/ \E n \in Names : ReadFile(n)
  \/ \E n \in Names : ReadFileBuffer(n)
  \/ \E n \in Names : Stat(n)
  \/ \E n \in Names, v \in LanguageVersions, cb \in BOOLEAN : GetSourceFile(n, v, cb)

Spec == Init /\ [][Next]_vars

\* The path functions alone: a host is constructed and one of them is applied
\* to a string of at most MaxLen tokens.
NextPath ==
  /\ last.op = "new"
  /\ \/ \E q \in RawPaths : Resolve(q)
     \/ \E q \in RawPaths : GetCanonicalFileName(q)

SpecPath == Init /\ [][NextPath]_vars

----------------------------------------------------------------------------
(* Properties *)

\* The state of the two stores at a path, read off the variables.
IsFileInBacking(p) == p \in DOMAIN backend /\ backend[p].kind = "file"
IsFileInMerged(p) ==
  \/ p \in DOMAIN cache /\ cache[p].kind = "file"
  \/ p \notin DOMAIN cache /\ IsFileInBacking(p)
Resolvable(name) == resolve(name) # InvalidPath

\* The other spellings of a name: the base-joined absolute spelling of a
\* relative name, and the relative name of a base-joined absolute one.
Spellings(name) ==
  {name}
    \cup (IF IsRelativeName(name) THEN {AbsSpelling(platform, name)} ELSE {})
    \cup {r \in RelNames : AbsSpelling(platform, r) = name}

\* What C1 promises of the last call, a writeFile: readFile returns exactly
\* the content written and fileExists is true, under every spelling of the name.
ReadsBackWhatWasWritten ==
  \A n \in Spellings(last.name) :
    /\ readFile(n) = [threw |-> FALSE, value |-> Def(last.data)]
    /\ fileExists(n, TRUE)

C2_ChangedUntilReset ==
  /\ [](last.op = "invalidate" /\ Resolvable(last.name)
          /\ IsFileInMerged(resolve(last.name))
        => resolve(last.name) \in Range(getChangedFilePaths))
  /\ [](last.op = "resetChangedFileTracker" => getChangedFilePaths = <<>>)
  /\ [][\A p \in Range(_changedFiles) :
          last'.op # "resetChangedFileTracker" => p \in Range(_changedFiles')]_vars

C2_Witness ==
  /\ last.op = "writeFile" /\ ~last.caught /\ ~last.threw
  /\ calls = 2
  /\ resolve(last.name) \in Range(getChangedFilePaths)

\* C3: fileExists(p, false) is true exactly when the resolved p is a file in the
\* merged view and not a file in the backing store: false for a backing file
\* overwritten through writeFile, true for a file created through writeFile.
C3_OverlayOnly ==
  (last.op = "fileExists" /\ ~last.flag /\ ~last.threw) =>
    LET p == resolve(last.name) IN
      /\ last.result = Def(IsFileInMerged(p) /\ ~IsFileInBacking(p))
      /\ p \in Range(filesToOverwrite) => last.result = Def(FALSE)
      /\ p \in Range(filesToCreate) => last.result = Def(TRUE)

C3_Witness ==
  /\ last.op = "fileExists" /\ ~last.flag /\ last.result = Def(FALSE)
  /\ resolve(last.name) \in Range(filesToOverwrite)
  /\ filesToCreate # <<>>

\* C4: getNgFactoryPaths() returns exactly the denormalized paths of the files
\* created in the overlay (written at a path the backing store does not have)
\* whose name ends in .ngfactory.js or .ngstyle.js, each once, and nothing else.
C4_NgFactoryPaths ==
  last.op = "getNgFactoryPaths" =>
    LET created == {p \in DOMAIN cache : cache[p].kind = "file" /\ p \notin DOMAIN backend}
        generated == {p \in created :
                        p[Len(p)] \in {"b.ngfactory.js", "c.ngfactory.js", "c.ngstyle.js"}}
        expected == {getSystemPath(p) : p \in generated}
    IN /\ Range(last.result) = expected
       /\ Len(last.result) = Cardinality(expected)

C4_Witness ==
  /\ last.op = "getNgFactoryPaths"
  /\ Len(last.result) = 1
  /\ \E p \in Range(filesToCreate) : p[Len(p)] = "c.ngstyle.js"
  /\ filesToOverwrite # <<>>

\* C5: getCanonicalFileName(name) is resolve(name) on a case-sensitive host and
\* the lower-cased resolve(name) on a case-insensitive host.
C5_CanonicalName ==
  (last.op = "getCanonicalFileName" /\ ~last.threw) =>
    last.result = Def(IF useCaseSensitiveFileNames THEN resolve(last.name)
                      ELSE toLowerCase(resolve(last.name)))

\* C6: the source file getSourceFile(name) returns is tagged with resolve(name),
\* the name resolved against the base path, written with forward slashes.
C6_SourceFileTag ==
  (last.op = "getSourceFile" /\ last.result # Undefined) =>
    last.result[1].fileName = ReplaceAll(getSystemPath(resolve(last.name)), "\\", "/")

\* C7: for a name whose resolved path is absent or a directory, fileExists
\* returns false and readFile and readFileBuffer return undefined, without an
\* exception and without a change to the file system or the changed-file set.
IsRead(op) == op \in {"fileExists", "readFile", "readFileBuffer"}
C7_AbsentIsNotAnError ==
  /\ [](IsRead(last.op) /\ Resolvable(last.name) /\ ~IsFileInMerged(resolve(last.name))
        => /\ ~last.threw
           /\ last.result = IF last.op = "fileExists" THEN Def(FALSE) ELSE Undefined)
  /\ [][IsRead(last'.op) /\ Resolvable(last'.name) /\ ~IsFileInMerged(resolve(last'.name))
        => UNCHANGED <<fsVars, _changedFiles>>]_vars

C7_Witness ==
  /\ last.op = "readFile"
  /\ resolve(last.name) \in DOMAIN cache /\ cache[resolve(last.name)].kind = "dir"
  /\ last.result = Undefined

\* C8: when the file system fails during writeFile, no exception reaches the
\* caller, a supplied onError is called exactly once with the failure's
\* message, and the contents readFile returns and the changed-file set are
\* what they were before the call.
C8_WriteFailure ==
  [][(last'.op = "writeFile" /\ Resolvable(last'.name)
        /\ syncWrite(resolve(last'.name), stringToFileBuffer(last'.data)).error # Undefined)
     => /\ ~last'.threw
        /\ last'.flag => last'.onError =
             <<[exception |-> "PathIsDirectoryException", path |-> resolve(last'.name)]>>
        /\ ~last'.flag => last'.onError = <<>>
        /\ \A n \in Names : Resolvable(n) => readFile(n)' = readFile(n)
        /\ _changedFiles' = _changedFiles]_vars

C8_Witness ==
  /\ last.op = "writeFile" /\ last.caught /\ last.flag /\ ~last.threw
  /\ Len(last.onError) = 1
  /\ resolve(last.name) \in DOMAIN cache

\* C9: resolve is idempotent: resolve(join(base, p)) = resolve(p) for a relative
\* p, resolve(resolve(q)) = resolve(q) for every q, and what resolve returns is
\* an absolute normalized path.
C9_ResolveIdempotent ==
  last.op = "resolve" =>
    /\ IsRelativeName(last.name) =>
         (last.threw <=> join(_basePath, last.name) = InvalidPath)
    /\ ~last.threw =>
         LET r == last.result[1] IN
           /\ isAbsolute(r)
           /\ noCacheNormalize(r) = r
           /\ resolve(r) = r
           /\ IsRelativeName(last.name) => resolve(join(_basePath, last.name)) = r

C9_Witness ==
  /\ last.op = "resolve" /\ ~last.threw
  /\ IsRelativeName(last.name)
  /\ {"..", "\\", "a"} \subseteq Range(last.name)
  /\ last.result[1] \notin {_basePath, <<"/">>}

\* C10: the changed-file set holds resolved absolute paths, each once;
\* invalidate of a name that is no file leaves it alone, invalidate of a file
\* leaves exactly one entry for it, and no call but invalidate and
\* resetChangedFileTracker changes it.
C10_ChangedFileSet ==
  /\ [](\A i \in 1..Len(_changedFiles) :
          /\ isAbsolute(_changedFiles[i])
          /\ resolve(_changedFiles[i]) = _changedFiles[i]
          /\ \A j \in 1..Len(_changedFiles) : _changedFiles[j] = _changedFiles[i] => j = i)
  /\ [][(last'.op = "invalidate" /\ Resolvable(last'.name))
        => IF IsFileInMerged(resolve(last'.name))
           THEN Cardinality({i \in 1..Len(_changedFiles') :
                               _changedFiles'[i] = resolve(last'.name)}) = 1
           ELSE _changedFiles' = _changedFiles]_vars
  /\ [][last'.op \notin {"invalidate", "resetChangedFileTracker"}
        => _changedFiles' = _changedFiles]_vars

C10_Witness ==
  /\ last.op = "invalidate" /\ calls = 2
  /\ ~IsRelativeName(last.name)
  /\ _changedFiles = <<resolve(last.name)>>
  /\ cache = << >>

=============================================================================
